---------------------------- MODULE Spec2Model ----------------------------
(***************************************************************************)
(* Model of src/sweep.py: the interactive parameter-sweep script.          *)
(*                                                                         *)
(* Numbers.  A Python number is a record [int, m, e].  An int n is         *)
(* [int |-> TRUE, m |-> n, e |-> 0].  A float is [int |-> FALSE, m, e]:    *)
(* the double that lies e * 1e-18 above the double nearest to the decimal  *)
(* m/10.  A float literal typed by the operator has e = 0.                 *)
(*                                                                         *)
(* Text.  A string is a sequence of one-character strings.                 *)
(***************************************************************************)
EXTENDS Integers, Sequences, FiniteSets, TLC

VARIABLES
    pc,          \* where the program is
    caller,      \* who called generate_param_combinations
    scan_specs,  \* list of (name, start, end, step)
    names,       \* generate_param_combinations: names
    lists,       \* generate_param_combinations: lists
    si,          \* generate_param_combinations: position of the for loop
    v,           \* generate_param_combinations: v
    vals,        \* generate_param_combinations: vals
    combos,      \* the combinations
    text,        \* content of the template input file
    lines,       \* parse_input_file: lines
    param_map,   \* parse_input_file: param_map
    param_names, \* names of the scanned parameters
    combo,       \* the combination being applied
    new_lines,   \* modify_input: new
    out_text,    \* content of the input file written from new_lines
    origin,      \* the template directory: "nodir", "nofile" or "ok"
    tasks_dir,   \* whether the directory tasks exists
    dirs,        \* the task directories: folder name -> content of its input file
    tasks_csv,   \* the manifest file: [exists, rows]
    submitted,   \* the folders the submission command was run in, in order
    n,           \* main: n
    confirm,     \* main: confirm
    submit,      \* main: submit
    idx,         \* main: idx of the task loop
    run,         \* which run of the script this is
    snap         \* the file system and the scan specs as the previous run left them

genVars == <<scan_specs, names, lists, si, v, vals, combos>>
textVars == <<text, lines, param_map, param_names, combo, new_lines, out_text>>
fsVars == <<tasks_dir, dirs, tasks_csv, submitted>>
mainVars == <<origin, fsVars, n, confirm, submit, idx, run, snap>>
vars == <<pc, caller, genVars, textVars, mainVars>>

---------------------------------------------------------------------------
(* Bounds of the model *)

\* longest scan-spec list handed directly to generate_param_combinations
MaxSpecs == 2
\* most values one floating-point range may accumulate before the model stops it
MaxIter == 4

---------------------------------------------------------------------------
(* Numbers *)

I(i) == [int |-> TRUE, m |-> i, e |-> 0]
R(m) == [int |-> FALSE, m |-> m, e |-> 0]

\* the value in tenths, ignoring the sub-1e-12 offset e
Tenths(x) == IF x.int THEN 10 * x.m ELSE x.m

\* 1e-12 (the tolerance of the while guard) in units of 1e-18
Tol == 1000000
\* 10^-12 (the last digit round(v, 12) keeps) in units of 1e-18
RoundUnit == 1000000

\* IEEE-754 double addition on the model's grid: <<ma, ea, mb, er>> says
\* that the double (ma, ea) plus the literal mb/10 is the double (ma+mb, er).
\* Sums on the grid that are not listed give the double nearest the decimal.
FloatAddErr ==
    { <<-2, -28, -1, -56>>, <<-2, 0, -1, -56>>, <<-1, -28, -1, -28>>,
      <<0, -28, -1, -28>>, <<1, -28, -1, -28>>, <<2, -28, -1, -28>>,
      <<2, 0, 1, 56>>, <<3, 0, -1, -28>>, <<3, 167, -1, 139>>,
      <<4, 111, -1, 167>>, <<5, 111, -1, 111>>, <<6, 111, -1, 111>>,
      <<7, 0, 1, -111>>, <<7, 111, -1, 111>>, <<8, -111, 1, -111>>,
      <<8, 0, -1, 111>>, <<9, -111, 1, -111>>, <<10, -111, 1, -222>>,
      <<11, 0, 1, 222>>, <<12, 222, 1, 222>>, <<13, 222, 1, 444>>,
      <<14, 444, 1, 444>>, <<15, 444, 1, 444>>, <<16, 444, 1, 666>>,
      <<17, 666, 1, 666>> }

\* v + step (line 82): int + int is an int, anything else a double
Add(a, b) ==
    IF a.int /\ b.int
    THEN I(a.m + b.m)
    ELSE LET hit == { t \in FloatAddErr :
                        t[1] = Tenths(a) /\ t[2] = a.e /\ t[3] = Tenths(b) }
         IN  [int |-> FALSE, m |-> Tenths(a) + Tenths(b),
              e |-> IF hit = {} THEN 0 ELSE (CHOOSE t \in hit : TRUE)[4]]

\* v <= end + 1e-12 (line 80)
LeqTol(a, end) ==
    \/ Tenths(a) < Tenths(end)
    \/ Tenths(a) = Tenths(end) /\ a.e <= end.e + Tol

\* round(v, 12) (line 81): an int stays an int, a double goes to the nearest
\* multiple of 10^-12
Round12(a) ==
    IF a.int THEN a
    ELSE [a EXCEPT !.e = RoundUnit * ((a.e + (RoundUnit \div 2)) \div RoundUnit)]

\* a <= b on numbers (line 195)
Leq(a, b) ==
    \/ Tenths(a) < Tenths(b)
    \/ Tenths(a) = Tenths(b) /\ a.e <= b.e

---------------------------------------------------------------------------
(* Text *)

Whitespace == {" ", "\t", "\n"}

Digits == <<"0", "1", "2", "3", "4", "5", "6", "7", "8", "9">>

\* the first position of character c in s, 0 when there is none
RECURSIVE IndexFrom(_, _, _)
IndexFrom(s, c, i) ==
    IF i > Len(s) THEN 0
    ELSE IF s[i] = c THEN i ELSE IndexFrom(s, c, i + 1)

Contains(s, c) == IndexFrom(s, c, 1) # 0

\* s.split(c)
RECURSIVE Split(_, _)
Split(s, c) ==
    LET i == IndexFrom(s, c, 1)
    IN  IF i = 0 THEN <<s>>
        ELSE <<SubSeq(s, 1, i - 1)>> \o Split(SubSeq(s, i + 1, Len(s)), c)

\* s.strip()
RECURSIVE LStrip(_)
LStrip(s) ==
    IF s # <<>> /\ s[1] \in Whitespace THEN LStrip(Tail(s)) ELSE s

RECURSIVE RStrip(_)
RStrip(s) ==
    IF s # <<>> /\ s[Len(s)] \in Whitespace
    THEN RStrip(SubSeq(s, 1, Len(s) - 1)) ELSE s

Strip(s) == RStrip(LStrip(s))

\* s.split(): the maximal runs of non-whitespace characters
RECURSIVE SplitWs(_)
SplitWs(s) ==
    LET t == LStrip(s)
        RECURSIVE TokenEnd(_)
        TokenEnd(i) ==
            IF i > Len(t) \/ t[i] \in Whitespace THEN i - 1 ELSE TokenEnd(i + 1)
    IN  IF t = <<>> THEN <<>>
        ELSE LET last == TokenEnd(1)
             IN  <<SubSeq(t, 1, last)>> \o SplitWs(SubSeq(t, last + 1, Len(t)))

\* sep.join(parts)
RECURSIVE Join(_, _)
Join(parts, sep) ==
    IF parts = <<>> THEN <<>>
    ELSE IF Len(parts) = 1 THEN parts[1]
    ELSE parts[1] \o sep \o Join(Tail(parts), sep)

\* f.readlines(): every line keeps its terminator; the last may have none
RECURSIVE ReadLines(_)
ReadLines(t) ==
    LET i == IndexFrom(t, "\n", 1)
    IN  IF t = <<>> THEN <<>>
        ELSE IF i = 0 THEN <<t>>
        ELSE <<SubSeq(t, 1, i)>> \o ReadLines(SubSeq(t, i + 1, Len(t)))

\* f.writelines(ls): the strings one after the other, nothing added
RECURSIVE WriteLines(_)
WriteLines(ls) ==
    IF ls = <<>> THEN <<>> ELSE ls[1] \o WriteLines(Tail(ls))

RECURSIVE NatStr(_)
NatStr(i) ==
    IF i < 10 THEN <<Digits[i + 1]>>
    ELSE NatStr(i \div 10) \o <<Digits[(i % 10) + 1]>>

Abs(i) == IF i < 0 THEN -i ELSE i

\* str(val) (lines 111, 128): an int in decimal, a double as the shortest
\* decimal that reads back as it, which for the double nearest m/10 is the
\* decimal m/10 with one fractional digit
Str(x) ==
    IF x.int
    THEN (IF x.m < 0 THEN <<"-">> ELSE <<>>) \o NatStr(Abs(x.m))
    ELSE (IF x.m < 0 THEN <<"-">> ELSE <<>>)
            \o NatStr(Abs(x.m) \div 10) \o <<".">> \o NatStr(Abs(x.m) % 10)

---------------------------------------------------------------------------
(* parse_input_file *)

\* the names a line announces after its marker (lines 44-46)
LineNames(line) ==
    LET comment == Split(Split(line, "!")[2], "(")[1]
        parts == Split(comment, ",")
        RECURSIVE Keep(_)
        Keep(k) ==
            IF k > Len(parts) THEN <<>>
            ELSE IF Strip(parts[k]) # <<>>
                 THEN <<Strip(parts[k])>> \o Keep(k + 1)
                 ELSE Keep(k + 1)
    IN  Keep(1)

\* '!' in line and ',' in line.split('!')[1] (line 42)
Adjustable(line) ==
    Contains(line, "!") /\ Contains(Split(line, "!")[2], ",")

Put(map, name, where) ==
    [x \in (DOMAIN map) \cup {name} |-> IF x = name THEN where ELSE map[x]]

\* the loop over the names of one line (lines 50-52); ix (idx in the source) and pos count from 0
RECURSIVE MapLine(_, _, _, _, _)
MapLine(map, nms, nvalues, ix, pos) ==
    IF pos >= Len(nms) THEN map
    ELSE MapLine(IF pos < nvalues THEN Put(map, nms[pos + 1], <<ix, pos>>)
                 ELSE map,
                 nms, nvalues, ix, pos + 1)

\* the loop over the lines (lines 40-52)
RECURSIVE MapLines(_, _, _)
MapLines(map, ls, ix) ==
    IF ix >= Len(ls) THEN map
    ELSE LET line == ls[ix + 1]
         IN  MapLines(IF Adjustable(line)
                      THEN MapLine(map, LineNames(line),
                                   Len(SplitWs(Split(line, "!")[1])), ix, 0)
                      ELSE map,
                      ls, ix + 1)

\* parse_input_file applied to the content of the file
parse_input_file(t) ==
    [lines |-> ReadLines(t), param_map |-> MapLines(<<>>, ReadLines(t), 0)]

---------------------------------------------------------------------------
(* modify_input *)

\* the body of the loop (lines 107-114) for one name and value
ModifyLine(line, pos, val) ==
    LET parts == Split(line, "!")
        before == parts[1]
        rest == Tail(parts)
        nums == [SplitWs(before) EXCEPT ![pos + 1] = Str(val)]
        comment == IF rest # <<>> THEN <<"!">> \o rest[1] ELSE <<>>
    IN  Join(nums, <<" ">>) \o <<" ">> \o comment

RECURSIVE ModifyFrom(_, _, _, _, _)
ModifyFrom(new, map, cmb, pnames, k) ==
    IF k > Len(pnames) \/ k > Len(cmb) THEN new
    ELSE LET ln == map[pnames[k]][1]
             pos == map[pnames[k]][2]
         IN  ModifyFrom([new EXCEPT ![ln + 1] = ModifyLine(new[ln + 1], pos, cmb[k])],
                        map, cmb, pnames, k + 1)

\* modify_input(lines, param_map, combo, param_names) (lines 104-115)
modify_input(ls, map, cmb, pnames) == ModifyFrom(ls, map, cmb, pnames, 1)

\* no file system and no run of main
NoMain ==
    /\ origin = "ok"
    /\ tasks_dir = FALSE
    /\ dirs = <<>>
    /\ tasks_csv = [exists |-> FALSE, rows |-> <<>>]
    /\ submitted = <<>>
    /\ n = 0
    /\ confirm = <<>>
    /\ submit = FALSE
    /\ idx = 0
    /\ run = 1
    /\ snap = <<>>

NoText ==
    /\ text = <<>>
    /\ lines = <<>>
    /\ param_map = <<>>
    /\ param_names = <<>>
    /\ combo = <<>>
    /\ new_lines = <<>>
    /\ out_text = <<>>

---------------------------------------------------------------------------
(* generate_param_combinations *)

RECURSIVE RangeFrom(_, _, _)
RangeFrom(i, stop, step) ==
    IF (step > 0 /\ i < stop) \/ (step < 0 /\ i > stop)
    THEN <<I(i)>> \o RangeFrom(i + step, stop, step)
    ELSE <<>>

\* a range that stops short of end: range(start, end, step)
IntRangeExclusive(start, end, step) == RangeFrom(start, end, step)

\* list(range(start, end + (1 if step > 0 else -1), step)) (line 76)
IntRange(start, end, step) ==
    RangeFrom(start, end + (IF step > 0 THEN 1 ELSE -1), step)

AllInt(s) == s.start.int /\ s.end.int /\ s.step.int

\* one pool of itertools.product: [x + (y,) for x in result for y in pool]
Extend(result, pool) ==
    [j \in 1..(Len(result) * Len(pool)) |->
        Append(result[((j - 1) \div Len(pool)) + 1],
               pool[((j - 1) % Len(pool)) + 1])]

RECURSIVE ProductFrom(_, _, _)
ProductFrom(ls, k, result) ==
    IF k > Len(ls) THEN result
    ELSE ProductFrom(ls, k + 1, Extend(result, ls[k]))

Rev(q) == [i \in 1..Len(q) |-> q[Len(q) + 1 - i]]

\* a product that nests the other way round: the first pool varies fastest
ProductFirstFastest(ls) ==
    LET r == ProductFrom(Rev(ls), 1, << <<>> >>)
    IN  [k \in 1..Len(r) |-> Rev(r[k])]

\* list(itertools.product(*lists)) (line 86)
Product(ls) == ProductFrom(ls, 1, << <<>> >>)

\* for name, start, end, step in scan_specs: (lines 70-76) the loop head, the
\* type test and the integer branch
GenSpec ==
    /\ pc = "gen_for"
    /\ si <= Len(scan_specs)
    /\ LET s == scan_specs[si] IN
       /\ names' = Append(names, s.name)
       /\ IF AllInt(s)
          THEN IF s.step.m = 0
               THEN \* range() arg 3 must not be zero: ValueError, uncaught
                    /\ pc' = "crashed"
                    /\ UNCHANGED <<lists, si, v, vals>>
               ELSE /\ lists' = Append(lists, IntRange(s.start.m, s.end.m, s.step.m))
                    /\ si' = si + 1
                    /\ vals' = <<>>
                    /\ UNCHANGED <<pc, v>>
          ELSE /\ v' = s.start
               /\ vals' = <<>>
               /\ pc' = "gen_while"
               /\ UNCHANGED <<lists, si>>
    /\ UNCHANGED <<caller, scan_specs, combos, textVars, mainVars>>

\* while v <= end + 1e-12: vals.append(round(v, 12)); v += step (lines 80-82)
GenWhileBody ==
    /\ pc = "gen_while"
    /\ LeqTol(v, scan_specs[si].end)
    /\ Len(vals) < MaxIter
    /\ vals' = Append(vals, Round12(v))
    /\ v' = Add(v, scan_specs[si].step)
    /\ UNCHANGED <<pc, caller, scan_specs, names, lists, si, combos, textVars, mainVars>>

\* the while guard fails: lists.append(vals) (line 83)
GenWhileExit ==
    /\ pc = "gen_while"
    /\ ~LeqTol(v, scan_specs[si].end)
    /\ lists' = Append(lists, vals)
    /\ si' = si + 1
    /\ pc' = "gen_for"
    /\ UNCHANGED <<caller, scan_specs, names, v, vals, combos, textVars, mainVars>>

\* combos = list(itertools.product(*lists)); return names, combos (lines 86-87)
GenProduct ==
    /\ pc = "gen_for"
    /\ si > Len(scan_specs)
    /\ combos' = Product(lists)
    /\ pc' = IF caller = "main" THEN "filter" ELSE "returned"
    /\ UNCHANGED <<caller, scan_specs, names, lists, si, v, vals, textVars, mainVars>>

generate_param_combinations ==
    GenSpec \/ GenWhileBody \/ GenWhileExit \/ GenProduct

---------------------------------------------------------------------------
(* generate_param_combinations called on its own, on every spec list of the *)
(* input grid                                                               *)

GenNames == {"a", "b"}

IntTriples ==
    { <<I(s), I(e), I(st)>> : s \in {1, 3}, e \in {0, 5}, st \in {-2, 1, 2} }

RealTriples ==
    { <<R(s), R(e), R(st)>> : s \in {1, 3}, e \in {1, 3}, st \in {-1, 1} }

MixedTriples == { <<I(1), I(2), R(5)>> }

GenScanSpecs ==
    { [name |-> nm, start |-> t[1], end |-> t[2], step |-> t[3]] :
        nm \in GenNames, t \in IntTriples \cup RealTriples \cup MixedTriples }

SeqsUpTo(S, max) == UNION { [1..k -> S] : k \in 0..max }

InitGen ==
    /\ pc = "gen_for"
    /\ caller = "direct"
    /\ scan_specs \in SeqsUpTo(GenScanSpecs, MaxSpecs)
    /\ names = <<>>
    /\ lists = <<>>
    /\ si = 1
    /\ v = I(0)
    /\ vals = <<>>
    /\ combos = <<>>
    /\ NoText
    /\ NoMain

SpecGen == InitGen /\ [][generate_param_combinations]_vars

---------------------------------------------------------------------------
(* parse_input_file, modify_input and the write of the result called on    *)
(* their own, on every template and combination of the input grid          *)

\* most lines of a template
MaxLines == 2
\* most names scanned at once
MaxScan == 2

\* "10 20 ! a, b\n": the line of the end-to-end example
Line_ab ==
    <<"1", "0", " ", "2", "0", " ", "!", " ", "a", ",", " ", "b", "\n">>

\* "1  2!a,c (x, y)\n": a repeated name, a run of blanks, no blank at the marker, a description
Line_ac ==
    <<"1", " ", " ", "2", "!", "a", ",", "c", " ", "(", "x", ",", " ", "y",
      ")", "\n">>

\* "7 8\n": no marker: not adjustable
Line_plain ==
    <<"7", " ", "8", "\n">>

\* "3 ! d, e\n": more names than tokens
Line_de ==
    <<"3", " ", "!", " ", "d", ",", " ", "e", "\n">>

\* "4 5 ! f, g ! h\n": a second marker in the comment
Line_fg ==
    <<"4", " ", "5", " ", "!", " ", "f", ",", " ", "g", " ", "!", " ", "h",
      "\n">>

\* "6 ! k\n": a marker but no separator: not adjustable
Line_k ==
    <<"6", " ", "!", " ", "k", "\n">>

\* "8 9 ! p, q": no line terminator
Line_pq ==
    <<"8", " ", "9", " ", "!", " ", "p", ",", " ", "q">>

RwLines == {Line_ab, Line_ac, Line_plain, Line_de, Line_fg, Line_k, Line_pq}

RwValues == {I(12), R(5), R(-1)}

\* the lists of distinct elements of S, up to n long
DistinctSeqs(S, max) ==
    { q \in SeqsUpTo(S, max) : \A i, j \in 1..Len(q) : i # j => q[i] # q[j] }

NoGen ==
    /\ caller = "direct"
    /\ scan_specs = <<>>
    /\ names = <<>>
    /\ lists = <<>>
    /\ si = 1
    /\ v = I(0)
    /\ vals = <<>>
    /\ combos = <<>>

InitRw ==
    /\ pc = "rw_parse"
    /\ text \in { WriteLines(q) : q \in SeqsUpTo(RwLines, MaxLines) }
    /\ lines = <<>>
    /\ param_map = <<>>
    /\ param_names = <<>>
    /\ combo = <<>>
    /\ new_lines = <<>>
    /\ out_text = <<>>
    /\ NoGen
    /\ NoMain

\* lines, param_map = parse_input_file(template_input) (line 151)
RwParse ==
    /\ pc = "rw_parse"
    /\ lines' = parse_input_file(text).lines
    /\ param_map' = parse_input_file(text).param_map
    /\ pc' = "rw_modify"
    /\ UNCHANGED <<caller, genVars, text, param_names, combo, new_lines, out_text,
                   mainVars>>

\* new_lines = modify_input(lines, param_map, combo, param_names) (line 232)
RwModify ==
    /\ pc = "rw_modify"
    /\ \E pn \in DistinctSeqs(DOMAIN param_map, MaxScan) :
         \E cmb \in [1..Len(pn) -> RwValues] :
            /\ param_names' = pn
            /\ combo' = cmb
            /\ new_lines' = modify_input(lines, param_map, cmb, pn)
    /\ pc' = "rw_write"
    /\ UNCHANGED <<caller, genVars, text, lines, param_map, out_text, mainVars>>

\* f.writelines(new_lines) (lines 233-234)
RwWrite ==
    /\ pc = "rw_write"
    /\ out_text' = WriteLines(new_lines)
    /\ pc' = "rw_done"
    /\ UNCHANGED <<caller, genVars, text, lines, param_map, param_names, combo,
                   new_lines, mainVars>>

SpecRewrite == InitRw /\ [][RwParse \/ RwModify \/ RwWrite]_vars

---------------------------------------------------------------------------
(* main: what the operator types, and how the script reads it *)

\* the characters of the model in code-point order
Chars ==
    <<" ", "!", "(", ")", ",", "-", ".", "0", "1", "2", "3", "4", "5", "6",
      "7", "8", "9", "N", "Y", "_", "a", "b", "c", "d", "e", "f", "g", "h",
      "i", "j", "k", "l", "m", "n", "o", "p", "q", "r", "s", "t", "u", "v",
      "w", "x", "y", "z">>

Code(c) == CHOOSE i \in 1..Len(Chars) : Chars[i] = c

\* a < b on strings
RECURSIVE StrLess(_, _)
StrLess(a, b) ==
    IF b = <<>> THEN FALSE
    ELSE IF a = <<>> THEN TRUE
    ELSE IF a[1] # b[1] THEN Code(a[1]) < Code(b[1])
    ELSE StrLess(Tail(a), Tail(b))

\* sorted(keys) (line 154)
RECURSIVE Sorted(_)
Sorted(S) ==
    IF S = {} THEN <<>>
    ELSE LET least == CHOOSE x \in S : \A y \in S \ {x} : StrLess(x, y)
         IN  <<least>> \o Sorted(S \ {least})

IsDigitChar(c) == \E d \in 1..10 : Digits[d] = c

\* s.isdigit() (lines 169, 179)
IsDigit(s) == s # <<>> /\ \A i \in 1..Len(s) : IsDigitChar(s[i])

RECURSIVE ParseNat(_)
ParseNat(s) ==
    IF s = <<>> THEN 0
    ELSE 10 * ParseNat(SubSeq(s, 1, Len(s) - 1))
            + ((CHOOSE d \in 1..10 : Digits[d] = s[Len(s)]) - 1)

Unsigned(s) == IF s # <<>> /\ s[1] \in {"-", "+"} THEN Tail(s) ELSE s

\* int(s) (lines 161, 169) accepts blanks around an optionally signed run of digits
IsInt(s) == IsDigit(Unsigned(Strip(s)))

IntOf(s) ==
    IF Strip(s)[1] = "-" THEN -ParseNat(Unsigned(Strip(s)))
    ELSE ParseNat(Unsigned(Strip(s)))

\* float(s) (line 179) on the decimals of the grid: an optional sign, digits,
\* and at most one fractional digit; anything else of the grid is a ValueError
IsFloat(s) ==
    LET u == Unsigned(Strip(s))
        parts == Split(u, ".")
    IN  \/ IsDigit(u)
        \/ Len(parts) = 2 /\ IsDigit(parts[1]) /\ IsDigit(parts[2])
             /\ Len(parts[2]) = 1

FloatOf(s) ==
    LET u == Unsigned(Strip(s))
        parts == Split(u, ".")
        mag == IF Len(parts) = 1 THEN 10 * ParseNat(u)
               ELSE 10 * ParseNat(parts[1]) + ParseNat(parts[2])
    IN  R(IF Strip(s)[1] = "-" THEN -mag ELSE mag)

\* def to_num(s): return int(s) if s.isdigit() else float(s) (line 179)
IsNum(s) == IsDigit(s) \/ IsFloat(s)

to_num(s) == IF IsDigit(s) THEN I(ParseNat(s)) ELSE FloatOf(s)

\* s.lower() on the letters of the grid
Lower(s) ==
    [i \in 1..Len(s) |-> IF s[i] = "Y" THEN "y" ELSE IF s[i] = "N" THEN "n" ELSE s[i]]

\* sanitize(val) (lines 118-128)
sanitize(val) == Str(val)

asub1 == <<"a", "s", "u", "b", "1">>
asub2 == <<"a", "s", "u", "b", "2">>

\* answers to "How many parameters would you like to scan?"
CountInputs == { <<"0">>,
                  <<"1">>,
                  <<"2">>,
                  <<"x">> }

\* answers to "Select parameter ... by number or name"
Choices == { <<"1">>,
              <<"2">>,
              <<"a">>,
              <<"a", "s", "u", "b", "2">>,
              <<"9">> }

\* answers to the start, end and step prompts of one parameter
RangeInputs ==
    { <<<<"1", "0">>, <<"1", "2">>, <<"2">>>>,
      <<<<"2", "0">>, <<"2", "0">>, <<"1">>>>,
      <<<<"1">>, <<"2">>, <<"1">>>>,
      <<<<"1">>, <<"1">>, <<"1">>>>,
      <<<<"2">>, <<"1">>, <<"1">>>>,
      <<<<"0", ".", "1">>, <<"0", ".", "3">>, <<"0", ".", "1">>>>,
      <<<<"0", ".", "3">>, <<"0", ".", "1">>, <<"-", "0", ".", "1">>>>,
      <<<<"1">>, <<"2">>, <<"-", "1">>>>,
      <<<<"1">>, <<"2">>, <<"0">>>>,
      <<<<"1">>, <<"x">>, <<"1">>>> }

\* answers to "Proceed to create and submit ... tasks? [y/N]"
ConfirmInputs == { <<"Y">>,
                    <<>> }

\* answers to "Submit jobs via SLURM? [Y/n]"
SubmitInputs == { <<>>,
                   <<"N">> }

\* the template input files main is run on
Text_ab ==
    <<"1", "0", " ", "2", "0", " ", "!", " ", "a", ",", " ", "b", "\n">>

Text_asub ==
    <<"1", " ", "2", " ", "!", " ", "a", "s", "u", "b", "1", ",", " ", "a",
      "s", "u", "b", "2", " ", "(", "f", "i", "l", "m", ")", "\n", "7",
      " ", "8", "\n">>

MainTexts == {Text_ab, Text_asub}

---------------------------------------------------------------------------
(* main: the file system *)

Remove(map, key) == [x \in (DOMAIN map) \ {key} |-> map[x]]

\* a folder name that counts the tasks from 0
FolderNameFromZero(i, cmb, pnames) ==
    <<"t", "a", "s", "k", "_">> \o NatStr(i - 1) \o <<"_">>
        \o Join([k \in 1..Len(pnames) |-> pnames[k] \o <<"_">> \o Str(cmb[k])],
                <<"_">>)

\* f"task_{idx}_{'_'.join(spec_parts)}" (lines 223-224)
FolderName(i, cmb, pnames) ==
    <<"t", "a", "s", "k", "_">> \o NatStr(i) \o <<"_">>
        \o Join([k \in 1..Len(pnames) |-> pnames[k] \o <<"_">> \o sanitize(cmb[k])],
                <<"_">>)

\* the cells csv.writer writes for a row: every value through str()
HeaderRow(pnames) == << <<"i", "d">>, <<"f", "o", "l", "d", "e", "r">> >> \o pnames

TaskRowCells(i, folder, cmb) ==
    <<NatStr(i), folder>> \o [k \in 1..Len(cmb) |-> Str(cmb[k])]

\* a manifest opened for appending: open(csv_file, 'a', newline='')
OpenCsvAppend(old) == [exists |-> TRUE, rows |-> old.rows]

\* open(csv_file, 'w', newline=''): the file is created or emptied (line 217)
OpenCsv(old) == [exists |-> TRUE, rows |-> <<>>]

\* combos = [c for c in combos if c[i1] <= c[i2]] (lines 191-195)
RECURSIVE Keep(_, _, _)
Keep(cs, i1, i2) ==
    IF cs = <<>> THEN <<>>
    ELSE (IF Leq(cs[1][i1], cs[1][i2]) THEN <<cs[1]>> ELSE <<>>)
            \o Keep(Tail(cs), i1, i2)

InList(x, q) == \E i \in 1..Len(q) : q[i] = x

\* q.index(x)
IndexOf(x, q) == CHOOSE i \in 1..Len(q) : q[i] = x /\ \A j \in 1..(i - 1) : q[j] # x

SymmetryFilter(pnames, cs) ==
    IF InList(asub1, pnames) /\ InList(asub2, pnames)
    THEN Keep(cs, IndexOf(asub1, pnames), IndexOf(asub2, pnames))
    ELSE cs

FreshFs ==
    /\ tasks_dir = FALSE
    /\ dirs = <<>>
    /\ tasks_csv = [exists |-> FALSE, rows |-> <<>>]
    /\ submitted = <<>>

\* what an earlier sweep of other values may have left
StaleFolder ==
    <<"t", "a", "s", "k", "_", "1", "_", "a", "_", "1", "0", "_", "b", "_",
      "2", "0">>

StaleFs ==
    /\ tasks_dir = TRUE
    /\ dirs = (StaleFolder :> <<"0", " ", "0", " ", "!", " ", "a", ",", " ", "b", "\n">>)
    /\ tasks_csv = [exists |-> TRUE,
                    rows |-> <<HeaderRow(<< <<"z">> >>),
                               <<NatStr(1), StaleFolder, <<"5">> >> >>]
    /\ submitted = <<>>

Snapshot(specs) ==
    [tasks_dir |-> tasks_dir, dirs |-> dirs, tasks_csv |-> tasks_csv,
     submitted |-> submitted, specs |-> specs]

---------------------------------------------------------------------------
(* main *)

\* most runs of the script in a row
MaxRuns == 2

Init ==
    /\ pc = "start"
    /\ caller = "main"
    /\ origin \in {"nodir", "nofile", "ok"}
    /\ text \in (IF origin = "ok" THEN MainTexts ELSE {<<>>})
    /\ FreshFs \/ StaleFs
    /\ scan_specs = <<>>
    /\ names = <<>>
    /\ lists = <<>>
    /\ si = 1
    /\ v = I(0)
    /\ vals = <<>>
    /\ combos = <<>>
    /\ lines = <<>>
    /\ param_map = <<>>
    /\ param_names = <<>>
    /\ combo = <<>>
    /\ new_lines = <<>>
    /\ out_text = <<>>
    /\ n = 0
    /\ confirm = <<>>
    /\ submit = FALSE
    /\ idx = 0
    /\ run = 1
    /\ snap = Snapshot(<<>>)

\* the template directory is checked and the template file parsed (lines 141-157)
CheckTemplate ==
    /\ pc = "start"
    /\ IF origin = "nodir"
       THEN \* "Error: template 'origin' not found."
            /\ pc' = "aborted"
            /\ UNCHANGED <<lines, param_map>>
       ELSE IF origin = "nofile"
       THEN \* open() raises FileNotFoundError, which nothing catches
            /\ pc' = "crashed"
            /\ UNCHANGED <<lines, param_map>>
       ELSE /\ lines' = parse_input_file(text).lines
            /\ param_map' = parse_input_file(text).param_map
            /\ pc' = "ask_n"
    /\ UNCHANGED <<caller, genVars, text, param_names, combo, new_lines, out_text,
                   mainVars>>

\* n = int(input(...)) (lines 160-166)
AskCount ==
    /\ pc = "ask_n"
    /\ \E s \in CountInputs :
         /\ run > 1 =>
              /\ IsInt(s)
              /\ (IF IntOf(s) < 0 THEN 0 ELSE IntOf(s)) = Len(snap.specs)
         /\ IF IsInt(s)
            THEN /\ n' = IntOf(s)
                 /\ pc' = "ask_spec"
            ELSE \* "Invalid number."
                 /\ pc' = "aborted"
                 /\ UNCHANGED n
    /\ UNCHANGED <<caller, genVars, textVars, origin, fsVars, confirm, submit, idx,
                   run, snap>>

\* one round of the loop that asks for a parameter and its range (lines 167-185)
AskSpec ==
    /\ pc = "ask_spec"
    /\ Len(scan_specs) < n
    /\ \E choice \in Choices, t \in RangeInputs :
         LET params == Sorted(DOMAIN param_map)
             c == Strip(choice)
             byNumber == IsDigit(c) /\ 1 <= ParseNat(c) /\ ParseNat(c) <= Len(params)
             known == byNumber \/ c \in DOMAIN param_map
             name == IF byNumber THEN params[ParseNat(c)] ELSE c
             start == Strip(t[1])
             end == Strip(t[2])
             step == Strip(t[3])
             numeric == IsNum(start) /\ IsNum(end) /\ IsNum(step)
             spec == [name |-> name, start |-> to_num(start), end |-> to_num(end),
                      step |-> to_num(step)]
         IN  /\ run > 1 =>
                  known /\ numeric /\ spec = snap.specs[Len(scan_specs) + 1]
             /\ IF known /\ numeric
                THEN /\ scan_specs' = Append(scan_specs, spec)
                     /\ UNCHANGED pc
                ELSE \* "Invalid parameter ..." or "Invalid numeric input."
                     /\ pc' = "aborted"
                     /\ UNCHANGED scan_specs
    /\ UNCHANGED <<caller, names, lists, si, v, vals, combos, textVars, mainVars>>

\* param_names, combos = generate_param_combinations(scan_specs) (line 188): the call
CallGenerate ==
    /\ pc = "ask_spec"
    /\ Len(scan_specs) >= n
    /\ names' = <<>>
    /\ lists' = <<>>
    /\ si' = 1
    /\ pc' = "gen_for"
    /\ UNCHANGED <<caller, scan_specs, v, vals, combos, textVars, mainVars>>

\* the names are taken, the symmetry filter applied, the plan shown (lines 188-205)
Filter ==
    /\ pc = "filter"
    /\ param_names' = names
    /\ combos' = SymmetryFilter(names, combos)
    /\ pc' = "confirm"
    /\ UNCHANGED <<caller, scan_specs, names, lists, si, v, vals, text, lines,
                   param_map, combo, new_lines, out_text, mainVars>>

\* a gate that, like the submission prompt, stops only on an explicit 'n'
DeclinedOnlyOnN(answer) == answer = <<"n">>

\* if confirm != 'y' (line 208)
Declined(answer) == answer # <<"y">>

\* the confirmation gate (lines 207-210)
Confirm ==
    /\ pc = "confirm"
    /\ \E ans \in ConfirmInputs :
         /\ confirm' = Lower(Strip(ans))
         /\ pc' = IF Declined(confirm') THEN "aborted" ELSE "ask_submit"
    /\ UNCHANGED <<caller, genVars, textVars, origin, fsVars, n, submit, idx, run,
                   snap>>

\* submit = input(...).strip().lower() != 'n' (line 212)
AskSubmit ==
    /\ pc = "ask_submit"
    /\ \E ans \in SubmitInputs : submit' = (Lower(Strip(ans)) # <<"n">>)
    /\ pc' = "prepare"
    /\ UNCHANGED <<caller, genVars, textVars, origin, fsVars, n, confirm, idx, run,
                   snap>>

\* os.makedirs('tasks', exist_ok=True); the manifest is opened and gets its
\* header (lines 215-219)
Prepare ==
    /\ pc = "prepare"
    /\ tasks_dir' = TRUE
    /\ tasks_csv' = [OpenCsv(tasks_csv) EXCEPT
                       !.rows = Append(@, HeaderRow(param_names))]
    /\ idx' = 1
    /\ pc' = "task"
    /\ UNCHANGED <<caller, genVars, textVars, origin, dirs, submitted, n, confirm,
                   submit, run, snap>>

\* the next combination is taken, its folder named, and a folder of that name
\* removed (lines 221-229)
TaskStart ==
    /\ pc = "task"
    /\ idx <= Len(combos)
    /\ combo' = combos[idx]
    /\ dirs' = Remove(dirs, FolderName(idx, combos[idx], param_names))
    /\ pc' = "copy"
    /\ UNCHANGED <<caller, genVars, text, lines, param_map, param_names, new_lines,
                   out_text, origin, tasks_dir, tasks_csv, submitted, n, confirm,
                   submit, idx, run, snap>>

\* shutil.copytree(template, folder) (line 230)
TaskCopy ==
    /\ pc = "copy"
    /\ dirs' = Put(dirs, FolderName(idx, combo, param_names), text)
    /\ pc' = "write"
    /\ UNCHANGED <<caller, genVars, textVars, origin, tasks_dir, tasks_csv,
                   submitted, n, confirm, submit, idx, run, snap>>

\* the template lines are rewritten and written into the folder (lines 232-234)
TaskWrite ==
    /\ pc = "write"
    /\ new_lines' = modify_input(lines, param_map, combo, param_names)
    /\ dirs' = [dirs EXCEPT ![FolderName(idx, combo, param_names)] =
                              WriteLines(new_lines')]
    /\ pc' = "row"
    /\ UNCHANGED <<caller, genVars, text, lines, param_map, param_names, combo,
                   out_text, origin, tasks_dir, tasks_csv, submitted, n, confirm,
                   submit, idx, run, snap>>

\* writer.writerow([idx, folder_name] + list(combo)) (line 237)
TaskRow ==
    /\ pc = "row"
    /\ tasks_csv' = [tasks_csv EXCEPT !.rows =
                       Append(@, TaskRowCells(idx, FolderName(idx, combo, param_names),
                                              combo))]
    /\ pc' = "submit"
    /\ UNCHANGED <<caller, genVars, textVars, origin, tasks_dir, dirs, submitted, n,
                   confirm, submit, idx, run, snap>>

\* if submit: os.system(f"cd {folder} && sbatch V-3.sh && cd ..") (lines 240-241),
\* and on to the next combination
TaskSubmit ==
    /\ pc = "submit"
    /\ submitted' = IF submit
                    THEN Append(submitted, FolderName(idx, combo, param_names))
                    ELSE submitted
    /\ idx' = idx + 1
    /\ pc' = "task"
    /\ UNCHANGED <<caller, genVars, textVars, origin, tasks_dir, dirs, tasks_csv, n,
                   confirm, submit, run, snap>>

\* the loop is over, the manifest closed, completion reported (line 243)
Finish ==
    /\ pc = "task"
    /\ idx > Len(combos)
    /\ pc' = "done"
    /\ UNCHANGED <<caller, genVars, textVars, mainVars>>

\* longest unfinished part of a file that is told apart from the others
MaxPart == 1

\* what a copy or a write that was cut short has put into a file so far:
\* nothing, its first characters, or all of it
Prefixes(t) ==
    { SubSeq(t, 1, k) : k \in { i \in 0..Len(t) : i <= MaxPart \/ i = Len(t) } }

\* an error handler that clears away the task folders before it gives up
FsErrorRollsBack ==
    /\ \/ /\ pc = "task"
          /\ idx <= Len(combos)
          /\ FolderName(idx, combos[idx], param_names) \in DOMAIN dirs
       \/ pc = "copy"
    /\ dirs' = <<>>
    /\ pc' = "fs_error"
    /\ UNCHANGED <<caller, genVars, textVars, origin, tasks_dir, tasks_csv,
                   submitted, n, confirm, submit, idx, run, snap>>

\* shutil.rmtree or shutil.copytree raises: the exception leaves main (lines
\* 228-230).  rmtree may have removed nothing yet or the template file already
\* (an absent file reads as empty); copytree may have created nothing, or the
\* folder with any part of the template file in it.
FsError ==
    /\ \/ /\ pc = "task"
          /\ idx <= Len(combos)
          /\ LET folder == FolderName(idx, combos[idx], param_names)
             IN  /\ folder \in DOMAIN dirs
                 /\ \/ UNCHANGED dirs
                    \/ dirs' = [dirs EXCEPT ![folder] = <<>>]
       \/ /\ pc = "copy"
          /\ \/ UNCHANGED dirs
             \/ \E part \in Prefixes(text) :
                  dirs' = Put(dirs, FolderName(idx, combo, param_names), part)
    /\ pc' = "fs_error"
    /\ UNCHANGED <<caller, genVars, textVars, origin, tasks_dir, tasks_csv,
                   submitted, n, confirm, submit, idx, run, snap>>

\* KeyboardInterrupt while the tasks are made (lines 221-241): between two
\* statements, or inside rmtree, copytree or the write of the rewritten lines.
\* Leaving the with block closes the manifest with the rows written so far.
Interrupt ==
    /\ pc \in {"task", "copy", "write", "row", "submit"}
    /\ \/ UNCHANGED dirs
       \/ /\ pc = "task"
          /\ idx <= Len(combos)
          /\ LET folder == FolderName(idx, combos[idx], param_names)
             IN  /\ folder \in DOMAIN dirs
                 /\ dirs' = [dirs EXCEPT ![folder] = <<>>]
       \/ /\ pc = "copy"
          /\ \E part \in Prefixes(text) :
               dirs' = Put(dirs, FolderName(idx, combo, param_names), part)
       \/ /\ pc = "write"
          /\ \E part \in Prefixes(WriteLines(modify_input(lines, param_map, combo,
                                                           param_names))) :
               dirs' = [dirs EXCEPT ![FolderName(idx, combo, param_names)] = part]
    /\ pc' = "interrupted"
    /\ UNCHANGED <<caller, genVars, textVars, origin, tasks_dir, tasks_csv,
                   submitted, n, confirm, submit, idx, run, snap>>

\* the script is started again on the same template, with the same scan specs
Rerun ==
    /\ pc = "done"
    /\ run < MaxRuns
    /\ run' = run + 1
    /\ snap' = Snapshot(scan_specs)
    /\ pc' = "start"
    /\ scan_specs' = <<>>
    /\ names' = <<>>
    /\ lists' = <<>>
    /\ si' = 1
    /\ v' = I(0)
    /\ vals' = <<>>
    /\ combos' = <<>>
    /\ lines' = <<>>
    /\ param_map' = <<>>
    /\ param_names' = <<>>
    /\ combo' = <<>>
    /\ new_lines' = <<>>
    /\ n' = 0
    /\ confirm' = <<>>
    /\ submit' = FALSE
    /\ idx' = 0
    /\ UNCHANGED <<caller, text, out_text, origin, fsVars>>

main ==
    \/ CheckTemplate \/ AskCount \/ AskSpec \/ CallGenerate
    \/ Filter \/ Confirm \/ AskSubmit \/ Prepare
    \/ TaskStart \/ TaskCopy \/ TaskWrite \/ TaskRow \/ TaskSubmit \/ Finish
    \/ FsError \/ Interrupt

Next == main \/ generate_param_combinations \/ Rerun

Spec == Init /\ [][Next]_vars

---------------------------------------------------------------------------
(* Claims about generate_param_combinations, checked under SpecGen *)

\* C1: an all-integer spec with a non-zero step expands to start,
\* start+step, start+2*step, ... in the direction of the sign of step, never
\* past end, and stops only when the next value would be past end.
C1_IntegerRangeInclusive ==
    \A i \in 1..Len(lists) :
        LET s == scan_specs[i]
            L == lists[i]
            a == s.start.m
            b == s.end.m
            d == s.step.m
        IN  (AllInt(s) /\ d # 0) =>
              /\ \A k \in 1..Len(L) :
                    /\ L[k] = I(a + (k - 1) * d)
                    /\ IF d > 0 THEN L[k].m <= b ELSE L[k].m >= b
              /\ IF d > 0 THEN a + Len(L) * d > b ELSE a + Len(L) * d < b

\* (1,5,2) has become [1,3,5] and the descending (3,0,-2) has become [3,1]
C1_Witness ==
    /\ Len(lists) = 2
    /\ <<scan_specs[1].start, scan_specs[1].end, scan_specs[1].step>>
         = <<I(1), I(5), I(2)>>
    /\ lists[1] = <<I(1), I(3), I(5)>>
    /\ <<scan_specs[2].start, scan_specs[2].end, scan_specs[2].step>>
         = <<I(3), I(0), I(-2)>>
    /\ lists[2] = <<I(3), I(1)>>

\* C2: a spec with a real among start, end, step expands so that an end
\* value reachable from start by whole steps is in the list, and no value of
\* the list lies beyond end.
C2_RealRangeReachesEnd ==
    \A i \in 1..Len(lists) :
        LET s == scan_specs[i]
            L == lists[i]
        IN  ~AllInt(s) =>
              /\ (\E k \in 0..(MaxIter - 1) :
                     Tenths(s.start) + k * Tenths(s.step) = Tenths(s.end))
                  => \E j \in 1..Len(L) : Tenths(L[j]) = Tenths(s.end)
              /\ \A j \in 1..Len(L) : Tenths(L[j]) <= Tenths(s.end)

RECURSIVE LenProduct(_, _)
LenProduct(ls, from) ==
    IF from > Len(ls) THEN 1 ELSE Len(ls[from]) * LenProduct(ls, from + 1)

\* C3: the names come back in declared order, there are as many
\* combinations as the product of the list lengths, and combination k holds,
\* for each spec j, the value that the mixed-radix digit j of k-1 selects (the
\* first spec is the most significant digit, the last spec the least).
C3_CartesianProductOrder ==
    pc = "returned" =>
      /\ names = [i \in 1..Len(scan_specs) |-> scan_specs[i].name]
      /\ Len(combos) = LenProduct(lists, 1)
      /\ \A k \in 1..Len(combos) :
            /\ Len(combos[k]) = Len(scan_specs)
            /\ \A j \in 1..Len(lists) :
                  combos[k][j] =
                    lists[j][(((k - 1) \div LenProduct(lists, j + 1))
                                % Len(lists[j])) + 1]

\* two specs of two or more values each have been multiplied out, and the
\* second combination differs from the first in the last spec's value only
C3_Witness ==
    /\ pc = "returned"
    /\ Len(lists) = 2
    /\ Len(lists[1]) >= 2
    /\ Len(lists[2]) >= 3
    /\ names = <<"b", "a">>
    /\ Len(combos) = Len(lists[1]) * Len(lists[2])
    /\ combos[1][1] = combos[2][1]
    /\ combos[1][2] # combos[2][2]

---------------------------------------------------------------------------
(* Claims about parse_input_file and modify_input, checked under           *)
(* SpecRewrite                                                             *)

\* the tokens before the first marker of a line
TokensOf(line) == SplitWs(Split(line, "!")[1])

\* the text of a line from its first marker on, empty when it has none
FromMarker(line) ==
    IF Contains(line, "!")
    THEN SubSeq(line, IndexFrom(line, "!", 1), Len(line))
    ELSE <<>>

\* the positions of line ln (from 0) that the scanned names designate
ScannedAt(ln) ==
    { param_map[param_names[k]][2] :
        k \in { j \in 1..Len(param_names) : param_map[param_names[j]][1] = ln } }

\* C6: the written lines, parsed again, give the Field Map of the
\* template, and at the location of every scanned name stands the string
\* form of the value the combination holds for it.
C6_RoundTrip ==
    pc = "rw_done" =>
      LET re == parse_input_file(out_text)
      IN  /\ re.param_map = param_map
          /\ \A k \in 1..Len(param_names) :
                LET ln == param_map[param_names[k]][1]
                    pos == param_map[param_names[k]][2]
                IN  /\ ln + 1 <= Len(re.lines)
                    /\ pos + 1 <= Len(TokensOf(re.lines[ln + 1]))
                    /\ TokensOf(re.lines[ln + 1])[pos + 1] = Str(combo[k])

\* C10: modify_input returns as many lines as it was given; a line with no
\* scanned field comes back as it was; on a line with a scanned field every
\* other token before the marker keeps its value and position, and the text
\* from the marker to the end of the line comes back verbatim; the lines it
\* was given are still those of the template.
C10_OnlyDesignatedTokens ==
    pc \in {"rw_write", "rw_done"} =>
      /\ Len(new_lines) = Len(lines)
      /\ lines = ReadLines(text)
      /\ \A i \in 1..Len(lines) :
            IF ScannedAt(i - 1) = {}
            THEN new_lines[i] = lines[i]
            ELSE /\ Len(TokensOf(new_lines[i])) = Len(TokensOf(lines[i]))
                 /\ \A t \in 1..Len(TokensOf(lines[i])) :
                       (t - 1) \notin ScannedAt(i - 1)
                         => TokensOf(new_lines[i])[t] = TokensOf(lines[i])[t]
                 /\ FromMarker(new_lines[i]) = FromMarker(lines[i])

---------------------------------------------------------------------------
(* Claims about main, checked under Spec *)

\* the states in which generate_param_combinations has returned to main
Expanded ==
    {"filter", "confirm", "ask_submit", "prepare", "task", "copy", "write", "row",
     "submit", "done", "fs_error", "interrupted"}

\* the states before anything is created: the dialogue, the expansion, the
\* submission prompt, and the ends of a run that was refused or broke off there
BeforeMutation ==
    {"start", "ask_n", "ask_spec", "gen_for", "gen_while", "filter", "confirm",
     "ask_submit", "aborted", "crashed"}

SameNumber(a, b) == Tenths(a) = Tenths(b) /\ a.e = b.e

SameCombo(c, d) ==
    Len(c) = Len(d) /\ \A j \in 1..Len(c) : SameNumber(c[j], d[j])

\* combination c with its asub1 and asub2 values exchanged
Swapped(c) ==
    LET i1 == IndexOf(asub1, param_names)
        i2 == IndexOf(asub2, param_names)
    IN  [c EXCEPT ![i1] = c[i2], ![i2] = c[i1]]

\* C4: when asub1 and asub2 are both scanned, every combination of the
\* unfiltered product has exactly one member of its swap class (itself or
\* its swap) among the combinations the filter lets through.
C4_OnePerSwapClass ==
    (pc = "confirm" /\ InList(asub1, param_names) /\ InList(asub2, param_names)) =>
      \A k \in 1..Len(Product(lists)) :
        LET c == Product(lists)[k]
        IN  Cardinality({ j \in 1..Len(combos) :
                            SameCombo(combos[j], c) \/ SameCombo(combos[j], Swapped(c)) })
              = 1

\* C5: main never gets past the expansion with a scan spec whose value list
\* is empty.
C5_EmptyRangeRejected ==
    (caller = "main" /\ pc \in Expanded) =>
      \A i \in 1..Len(lists) : lists[i] # <<>>

\* the name_value pairs of combination c from position j on, joined by "_"
RECURSIVE PairsFrom(_, _)
PairsFrom(c, j) ==
    IF j > Len(param_names) THEN <<>>
    ELSE param_names[j] \o <<"_">> \o Str(c[j])
            \o (IF j < Len(param_names) THEN <<"_">> ELSE <<>>)
            \o PairsFrom(c, j + 1)

ExpectedFolder(k) ==
    <<"t", "a", "s", "k", "_">> \o NatStr(k) \o <<"_">> \o PairsFrom(combos[k], 1)

\* C7: the manifest holds, after its header, one row per materialized task
\* in order: row k is the identifier k, the directory name
\* task_<k>_<name1>_<value1>_..., and the values of combination k in scan
\* order; that directory exists; and when the run is done there are as many
\* rows as surviving combinations.
C7_TasksAndManifestInOrder ==
    pc \in {"task", "copy", "write", "row", "submit", "done"} =>
      LET rows == tasks_csv.rows
      IN  /\ rows[1] = << <<"i", "d">>, <<"f", "o", "l", "d", "e", "r">> >> \o param_names
          /\ Len(rows) - 1 <= Len(combos)
          /\ pc = "done" => Len(rows) - 1 = Len(combos)
          /\ pc = "task" => Len(rows) = idx
          /\ \A k \in 1..(Len(rows) - 1) :
                /\ rows[k + 1][1] = NatStr(k)
                /\ rows[k + 1][2] = ExpectedFolder(k)
                /\ ExpectedFolder(k) \in DOMAIN dirs
                /\ Len(rows[k + 1]) = 2 + Len(param_names)
                /\ \A j \in 1..Len(param_names) :
                      rows[k + 1][2 + j] = Str(combos[k][j])

ExampleFolder1 ==
    <<"t", "a", "s", "k", "_", "1", "_", "a", "_", "1", "0", "_", "b", "_", "2", "0">>

ExampleFolder2 ==
    <<"t", "a", "s", "k", "_", "2", "_", "a", "_", "1", "2", "_", "b", "_", "2", "0">>

ExampleInput2 ==
    <<"1", "2", " ", "2", "0", " ", "!", " ", "a", ",", " ", "b", "\n">>

\* the end-to-end example: '10 20 ! a, b' with a:(10,12,2), b:(20,20,1) is
\* done with tasks task_1_a_10_b_20 and task_2_a_12_b_20 and two rows
C7_Witness ==
    /\ pc = "done"
    /\ text = Text_ab
    /\ DOMAIN dirs = {ExampleFolder1, ExampleFolder2}
    /\ dirs[ExampleFolder2] = ExampleInput2
    /\ tasks_csv.rows =
         << << <<"i", "d">>, <<"f", "o", "l", "d", "e", "r">>, <<"a">>, <<"b">> >>,
            << <<"1">>, ExampleFolder1, <<"1", "0">>, <<"2", "0">> >>,
            << <<"2">>, ExampleFolder2, <<"1", "2">>, <<"2", "0">> >> >>

\* C8: until the confirmation gate has been passed and the submission
\* question answered, and in every run that ends in a reported error or in
\* the operator declining, the tasks directory, the task directories, the
\* manifest and the submissions are as they were when the run began; and
\* nothing later in a run happens without the answer 'y' at the gate.
C8_NoMutationBeforeGate ==
    /\ pc \in BeforeMutation =>
         /\ tasks_dir = snap.tasks_dir
         /\ dirs = snap.dirs
         /\ tasks_csv = snap.tasks_csv
         /\ submitted = snap.submitted
    /\ pc \notin BeforeMutation => confirm = <<"y">>

\* a plan of two or more tasks was declined over an existing tasks directory
C8_Witness ==
    /\ pc = "aborted"
    /\ Len(combos) >= 2
    /\ confirm = <<>>
    /\ tasks_dir
    /\ dirs # <<>>
    /\ tasks_csv.exists

\* C9: a run on the directories a completed run of the same template and
\* scan specs left finds each of its folders there, removes it, recreates it
\* from the template, and ends with the same task directories holding the
\* same content and with a manifest of the same rows.
C9_RerunIdempotent ==
    run > 1 =>
      /\ pc \in {"copy", "write", "row", "submit"} =>
            ExpectedFolder(idx) \in DOMAIN snap.dirs
      /\ pc = "copy" => ExpectedFolder(idx) \notin DOMAIN dirs
      /\ pc = "write" => dirs[ExpectedFolder(idx)] = text
      /\ pc = "done" =>
            /\ dirs = snap.dirs
            /\ tasks_csv = snap.tasks_csv

\* a second run of a sweep of two or more tasks is done
C9_Witness ==
    /\ run = 2
    /\ pc = "done"
    /\ Len(combos) >= 2
    /\ Len(tasks_csv.rows) = Len(combos) + 1
    /\ Cardinality(DOMAIN dirs) >= Len(combos)

---------------------------------------------------------------------------
(* The tasks and the manifest while the tasks are made, after a filesystem  *)
(* error and after an interruption; checked under Spec                      *)

\* the states of a run in which the tasks are made, and its ends from there
Materializing ==
    {"task", "copy", "write", "row", "submit", "done", "fs_error", "interrupted"}

\* the number of task rows of the manifest
RowsWritten == Len(tasks_csv.rows) - 1

\* the manifest row of task k
ManifestRow(k) ==
    <<NatStr(k), ExpectedFolder(k)>>
        \o [i \in 1..Len(param_names) |-> Str(combos[k][i])]

\* the template file of a finished task k
RewrittenInput(k) ==
    WriteLines(modify_input(lines, param_map, combos[k], param_names))

\* the submissions this run has issued
IssuedThisRun == SubSeq(submitted, Len(snap.submitted) + 1, Len(submitted))

\* rows, finished directories and submissions of tasks 1..j, task idx being
\* the one at work or the one that failed
TasksUpTo(j) ==
    /\ 0 <= j /\ j <= Len(combos)
    /\ idx - 1 <= j /\ j <= idx
    /\ \A k \in 1..j :
          /\ tasks_csv.rows[k + 1] = ManifestRow(k)
          /\ ExpectedFolder(k) \in DOMAIN dirs
          /\ dirs[ExpectedFolder(k)] = RewrittenInput(k)
    /\ Len(IssuedThisRun) <= j
    /\ submit => Len(IssuedThisRun) >= idx - 1
    /\ \A k \in 1..Len(IssuedThisRun) : IssuedThisRun[k] = ExpectedFolder(k)

\* C11 as stated: while the tasks are made, and after an interruption or a
\* filesystem error, the manifest rows are those of tasks 1..j, each of these
\* tasks and each submitted task has its directory with the rewritten
\* template file, and of the tasks without a row only task j+1 can have a
\* directory: no task after it has one.
C11_OnlyNextTaskHasDirectoryWithoutRow ==
    pc \in Materializing =>
      /\ TasksUpTo(RowsWritten)
      /\ \A k \in (RowsWritten + 2)..Len(combos) :
            ExpectedFolder(k) \notin DOMAIN dirs

\* C11, amended: as above, but a task after j+1 may have a directory that
\* an earlier run left under the same name; this run has not touched it: it
\* is there, with the content it had, exactly if it was when the run began.
C11_LaterTasksUntouched ==
    pc \in Materializing =>
      /\ TasksUpTo(RowsWritten)
      /\ \A k \in (RowsWritten + 2)..Len(combos) :
            LET folder == ExpectedFolder(k)
            IN  /\ folder \in DOMAIN dirs <=> folder \in DOMAIN snap.dirs
                /\ folder \in DOMAIN dirs => dirs[folder] = snap.dirs[folder]

\* the copy of task 2 of three or more failed half-way in a second run: task 1
\* has its row and its directory, task 2 a directory that is not finished,
\* task 3 the directory of the run before
C11_Witness ==
    /\ pc = "fs_error"
    /\ run = 2
    /\ idx = 2
    /\ Len(combos) >= 3
    /\ RowsWritten = 1
    /\ dirs[ExpectedFolder(1)] = RewrittenInput(1)
    /\ ExpectedFolder(2) \in DOMAIN dirs
    /\ dirs[ExpectedFolder(2)] # RewrittenInput(2)
    /\ dirs[ExpectedFolder(2)] # text
    /\ ExpectedFolder(3) \in DOMAIN dirs

---------------------------------------------------------------------------
(* The expansion as a stage of main; checked under Spec                     *)

\* C12: for scan specs the dialogue has accepted, the expansion comes to its
\* end and hands main a finite list: it raises nothing, and every further
\* round of the loop over real values is one whose step takes v towards the
\* end value, so that the rounds run out and main goes on to the filter and
\* the confirmation gate.
C12_ExpansionReachesGate ==
    caller = "main" =>
      /\ pc = "crashed" => origin = "nofile"
      /\ (pc = "gen_while" /\ LeqTol(v, scan_specs[si].end)) =>
            Tenths(scan_specs[si].step) > 0

=============================================================================
